---- MODULE Spec2Model ----
(***************************************************************************)
(* Category progress bar of the envelope budget view.                      *)
(*                                                                         *)
(* Two versions of CategoryProgressBar.tsx exist in the repository:        *)
(*   variant "A"  the two-state calculator  (within-budget / over-budget)  *)
(*   variant "B"  the template-aware calculator (funded / underfunded /    *)
(*                over-budget)                                             *)
(* A running build contains one of them; `variant` records which.          *)
(*                                                                         *)
(* JavaScript numbers are modelled as exact fractions num/den with         *)
(* den >= 0.  den = 0 encodes the non-finite values a division by zero     *)
(* produces: 0/0 is NaN, 1/0 is Infinity, -1/0 is -Infinity.  The rounding *)
(* of IEEE doubles is not modelled.                                        *)
(***************************************************************************)
EXTENDS Integers, Sequences, FiniteSets, TLC

VARIABLES
  variant,               \* "A" or "B": which CategoryProgressBar.tsx is built
  params,                \* the props of the mounted component
  progressBarEnabled,    \* useFeatureFlag('progressBar')
  showProgressBarsPref,  \* the showProgressBars global preference
  progress,              \* the memoised result of computeCategoryProgress
  rendered,              \* what the last render returned
  providerPhase,         \* TemplateGoalProvider: "unmounted", "mounted", "gone"
  inputs,                \* its props and the fingerprint of the categories
  templateGoalsByMonth,  \* its state: month -> (category -> goal)
  loads,                 \* the runs of its effect, oldest first
  lastWriter             \* the run that called setTemplateGoalsByMonth last

barVars == <<variant, params, progressBarEnabled, showProgressBarsPref,
             progress, rendered>>

providerVars == <<providerPhase, inputs, templateGoalsByMonth, loads,
                  lastWriter>>

vars == <<variant, params, progressBarEnabled, showProgressBarsPref,
          progress, rendered, providerPhase, inputs, templateGoalsByMonth,
          loads, lastWriter>>

(***************************************************************************)
(* Bounds of the model.                                                    *)
(***************************************************************************)
MaxAmount == 4
MaxBalance == 2
\* an amount of which one unit is less than half a percent
LargeAmount == 201

Amounts == (0 - MaxAmount) .. MaxAmount
Balances == (0 - MaxBalance) .. MaxBalance
LargeAmounts == {LargeAmount, LargeAmount + 1}

(***************************************************************************)
(* Numbers.                                                                *)
(***************************************************************************)
Abs(i) == IF i < 0 THEN 0 - i ELSE i

Sign(i) == IF i < 0 THEN 0 - 1 ELSE IF i > 0 THEN 1 ELSE 0

RECURSIVE GCD(_, _)
GCD(a, b) == IF b = 0 THEN a ELSE GCD(b, a % b)

Norm(n, d) ==
  IF d = 0 THEN [num |-> Sign(n), den |-> 0]
  ELSE LET g == GCD(Abs(n), Abs(d))
           s == Sign(d)
       IN  [num |-> (s * n) \div g, den |-> (s * d) \div g]

Num(i) == [num |-> i, den |-> 1]

Zero == Num(0)

One == Num(1)

NaN == [num |-> 0, den |-> 0]

IsNaN(x) == x.num = 0 /\ x.den = 0

IsFinite(x) == x.den # 0

\* x / y
Div(x, y) == Norm(x.num * y.den, x.den * y.num)

\* x * y
Mul(x, y) == Norm(x.num * y.num, x.den * y.den)

\* x + y
Add(x, y) ==
  IF x.den = 0 /\ y.den = 0
  THEN (IF x.num = y.num THEN x ELSE NaN)
  ELSE Norm(x.num * y.den + y.num * x.den, x.den * y.den)

\* x < y; every comparison with NaN is false
Less(x, y) ==
  /\ ~IsNaN(x)
  /\ ~IsNaN(y)
  /\ IF x.den = 0 /\ y.den = 0
     THEN x.num < y.num
     ELSE x.num * y.den < y.num * x.den

\* x <= y
LessEq(x, y) == ~IsNaN(x) /\ ~IsNaN(y) /\ ~Less(y, x)

MathMin(x, y) ==
  IF IsNaN(x) \/ IsNaN(y) THEN NaN
  ELSE IF Less(y, x) THEN y ELSE x

\* Math.round: the nearest integer, halves rounded up
MathRound(x) ==
  IF x.den = 0 THEN x
  ELSE Num((2 * x.num + x.den) \div (2 * x.den))

(***************************************************************************)
(* Optional template prop: <<>> is "not passed" (undefined), <<t>> is t.   *)
(***************************************************************************)
Undefined == <<>>

Templates == {Undefined} \cup {<<t>> : t \in (0 - 1) .. MaxAmount}

\* `template = 0` default of the destructuring
TemplateOrDefault(t) == IF t = Undefined THEN 0 ELSE t[1]

(***************************************************************************)
(* Variant A: the two-state calculator.                                    *)
(* p is a ProgressParams record [assigned, activity, balance].             *)
(***************************************************************************)
\* mutant: spending the whole budget already counts as over budget
computeCategoryProgressA_OverAtEqual(p) ==
  LET assigned == p.assigned
      balance == p.balance
      spent == Abs(p.activity)
  IN  IF assigned <= 0
      THEN IF spent <= 0
           THEN [baselineAmount |-> 0,
                 progressRatio |-> Zero,
                 overflowRatio |-> Zero,
                 remaining |-> 0,
                 state |-> "within-budget"]
           ELSE [baselineAmount |-> spent,
                 progressRatio |-> One,
                 overflowRatio |-> Zero,
                 remaining |-> balance,
                 state |-> "over-budget"]
      ELSE IF spent >= assigned
           THEN [baselineAmount |-> assigned,
                 progressRatio |-> One,
                 overflowRatio |-> Div(Num(spent - assigned), Num(assigned)),
                 remaining |-> balance,
                 state |-> "over-budget"]
           ELSE [baselineAmount |-> assigned,
                 progressRatio |-> Div(Num(spent), Num(assigned)),
                 overflowRatio |-> Zero,
                 remaining |-> balance,
                 state |-> "within-budget"]

\* mutant: the overflow is capped at 1
computeCategoryProgressA_CappedOverflow(p) ==
  LET assigned == p.assigned
      balance == p.balance
      spent == Abs(p.activity)
  IN  IF assigned <= 0
      THEN IF spent <= 0
           THEN [baselineAmount |-> 0,
                 progressRatio |-> Zero,
                 overflowRatio |-> Zero,
                 remaining |-> 0,
                 state |-> "within-budget"]
           ELSE [baselineAmount |-> spent,
                 progressRatio |-> One,
                 overflowRatio |-> Zero,
                 remaining |-> balance,
                 state |-> "over-budget"]
      ELSE IF spent > assigned
           THEN [baselineAmount |-> assigned,
                 progressRatio |-> One,
                 overflowRatio |->
                   MathMin(Div(Num(spent - assigned), Num(assigned)), One),
                 remaining |-> balance,
                 state |-> "over-budget"]
           ELSE [baselineAmount |-> assigned,
                 progressRatio |-> Div(Num(spent), Num(assigned)),
                 overflowRatio |-> Zero,
                 remaining |-> balance,
                 state |-> "within-budget"]

\* mutant: spending without a budget keeps the assigned amount as baseline
computeCategoryProgressA_BaselineAssigned(p) ==
  LET assigned == p.assigned
      balance == p.balance
      spent == Abs(p.activity)
  IN  IF assigned <= 0
      THEN IF spent <= 0
           THEN [baselineAmount |-> 0,
                 progressRatio |-> Zero,
                 overflowRatio |-> Zero,
                 remaining |-> 0,
                 state |-> "within-budget"]
           ELSE [baselineAmount |-> assigned,
                 progressRatio |-> One,
                 overflowRatio |-> Zero,
                 remaining |-> balance,
                 state |-> "over-budget"]
      ELSE IF spent > assigned
           THEN [baselineAmount |-> assigned,
                 progressRatio |-> One,
                 overflowRatio |-> Div(Num(spent - assigned), Num(assigned)),
                 remaining |-> balance,
                 state |-> "over-budget"]
           ELSE [baselineAmount |-> assigned,
                 progressRatio |-> Div(Num(spent), Num(assigned)),
                 overflowRatio |-> Zero,
                 remaining |-> balance,
                 state |-> "within-budget"]

\* mutant: only a negative assigned amount counts as no budget
computeCategoryProgressA_StrictNoBudget(p) ==
  LET assigned == p.assigned
      balance == p.balance
      spent == Abs(p.activity)
  IN  IF assigned < 0
      THEN IF spent <= 0
           THEN [baselineAmount |-> 0,
                 progressRatio |-> Zero,
                 overflowRatio |-> Zero,
                 remaining |-> 0,
                 state |-> "within-budget"]
           ELSE [baselineAmount |-> spent,
                 progressRatio |-> One,
                 overflowRatio |-> Zero,
                 remaining |-> balance,
                 state |-> "over-budget"]
      ELSE IF spent > assigned
           THEN [baselineAmount |-> assigned,
                 progressRatio |-> One,
                 overflowRatio |-> Div(Num(spent - assigned), Num(assigned)),
                 remaining |-> balance,
                 state |-> "over-budget"]
           ELSE [baselineAmount |-> assigned,
                 progressRatio |-> Div(Num(spent), Num(assigned)),
                 overflowRatio |-> Zero,
                 remaining |-> balance,
                 state |-> "within-budget"]

\* mutant: the overflow is the whole spending over the budget
computeCategoryProgressA_OverflowFromZero(p) ==
  LET assigned == p.assigned
      balance == p.balance
      spent == Abs(p.activity)
  IN  IF assigned <= 0
      THEN IF spent <= 0
           THEN [baselineAmount |-> 0,
                 progressRatio |-> Zero,
                 overflowRatio |-> Zero,
                 remaining |-> 0,
                 state |-> "within-budget"]
           ELSE [baselineAmount |-> spent,
                 progressRatio |-> One,
                 overflowRatio |-> Zero,
                 remaining |-> balance,
                 state |-> "over-budget"]
      ELSE IF spent > assigned
           THEN [baselineAmount |-> assigned,
                 progressRatio |-> One,
                 overflowRatio |-> Div(Num(spent), Num(assigned)),
                 remaining |-> balance,
                 state |-> "over-budget"]
           ELSE [baselineAmount |-> assigned,
                 progressRatio |-> Div(Num(spent), Num(assigned)),
                 overflowRatio |-> Zero,
                 remaining |-> balance,
                 state |-> "within-budget"]

computeCategoryProgressA(p) ==
  LET assigned == p.assigned
      balance == p.balance
      spent == Abs(p.activity)
  IN  IF assigned <= 0
      THEN IF spent <= 0
           THEN [baselineAmount |-> 0,
                 progressRatio |-> Zero,
                 overflowRatio |-> Zero,
                 remaining |-> 0,
                 state |-> "within-budget"]
           ELSE [baselineAmount |-> spent,
                 progressRatio |-> One,
                 overflowRatio |-> Zero,
                 remaining |-> balance,
                 state |-> "over-budget"]
      ELSE IF spent > assigned
           THEN [baselineAmount |-> assigned,
                 progressRatio |-> One,
                 overflowRatio |-> Div(Num(spent - assigned), Num(assigned)),
                 remaining |-> balance,
                 state |-> "over-budget"]
           ELSE [baselineAmount |-> assigned,
                 progressRatio |-> Div(Num(spent), Num(assigned)),
                 overflowRatio |-> Zero,
                 remaining |-> balance,
                 state |-> "within-budget"]

getProgressBarColorA(state) ==
  IF state = "over-budget"
  THEN "budgetNumberNegative"
  ELSE "templateNumberFunded"

(***************************************************************************)
(* Variant B: the template-aware calculator.                               *)
(* p is a ProgressParams record [assigned, activity, balance, template].   *)
(***************************************************************************)
hasTemplate(template) == template > 0

\* mutant: the budgeted ratio is not capped at 1
budgetedRatio_Uncapped(assigned, template) ==
  IF hasTemplate(template)
  THEN Div(Num(assigned), Num(template))
  ELSE One

budgetedRatio(assigned, template) ==
  IF hasTemplate(template)
  THEN MathMin(Div(Num(assigned), Num(template)), One)
  ELSE One

\* mutant: the no-budget branches report the computed budgetedRatio
computeCategoryProgressB_ReportsRatio(p) ==
  LET assigned == p.assigned
      balance == p.balance
      template == TemplateOrDefault(p.template)
      spent == Abs(p.activity)
  IN  IF assigned <= 0
      THEN IF spent <= 0
           THEN [baselineAmount |-> 0,
                 spentRatio |-> Zero,
                 budgetedRatio |-> budgetedRatio(assigned, template),
                 overflowRatio |-> Zero,
                 remaining |-> 0,
                 state |-> "funded"]
           ELSE [baselineAmount |-> spent,
                 spentRatio |-> One,
                 budgetedRatio |-> budgetedRatio(assigned, template),
                 overflowRatio |-> Zero,
                 remaining |-> balance,
                 state |-> "over-budget"]
      ELSE IF spent > assigned
           THEN [baselineAmount |-> assigned,
                 spentRatio |-> One,
                 budgetedRatio |-> One,
                 overflowRatio |-> Div(Num(spent - assigned), Num(assigned)),
                 remaining |-> balance,
                 state |-> "over-budget"]
           ELSE LET isUnderfunded == hasTemplate(template) /\ assigned < template
                    baselineAmount ==
                      IF hasTemplate(template) THEN template ELSE assigned
                    spentRatio ==
                      IF assigned > 0
                      THEN Mul(MathMin(Div(Num(spent), Num(assigned)), One),
                               budgetedRatio(assigned, template))
                      ELSE Zero
                IN  [baselineAmount |-> baselineAmount,
                     spentRatio |-> spentRatio,
                     budgetedRatio |-> budgetedRatio(assigned, template),
                     overflowRatio |-> Zero,
                     remaining |-> balance,
                     state |-> IF isUnderfunded THEN "underfunded" ELSE "funded"]

\* mutant: the spent ratio is not scaled by the budgeted ratio
computeCategoryProgressB_Unscaled(p) ==
  LET assigned == p.assigned
      balance == p.balance
      template == TemplateOrDefault(p.template)
      spent == Abs(p.activity)
  IN  IF assigned <= 0
      THEN IF spent <= 0
           THEN [baselineAmount |-> 0,
                 spentRatio |-> Zero,
                 budgetedRatio |-> Zero,
                 overflowRatio |-> Zero,
                 remaining |-> 0,
                 state |-> "funded"]
           ELSE [baselineAmount |-> spent,
                 spentRatio |-> One,
                 budgetedRatio |-> Zero,
                 overflowRatio |-> Zero,
                 remaining |-> balance,
                 state |-> "over-budget"]
      ELSE IF spent > assigned
           THEN [baselineAmount |-> assigned,
                 spentRatio |-> One,
                 budgetedRatio |-> One,
                 overflowRatio |-> Div(Num(spent - assigned), Num(assigned)),
                 remaining |-> balance,
                 state |-> "over-budget"]
           ELSE LET isUnderfunded == hasTemplate(template) /\ assigned < template
                    baselineAmount ==
                      IF hasTemplate(template) THEN template ELSE assigned
                    spentRatio ==
                      IF assigned > 0
                      THEN MathMin(Div(Num(spent), Num(assigned)), One)
                      ELSE Zero
                IN  [baselineAmount |-> baselineAmount,
                     spentRatio |-> spentRatio,
                     budgetedRatio |-> budgetedRatio(assigned, template),
                     overflowRatio |-> Zero,
                     remaining |-> balance,
                     state |-> IF isUnderfunded THEN "underfunded" ELSE "funded"]

\* mutant: a budget equal to the template still counts as underfunded
computeCategoryProgressB_UnderfundedAtEqual(p) ==
  LET assigned == p.assigned
      balance == p.balance
      template == TemplateOrDefault(p.template)
      spent == Abs(p.activity)
  IN  IF assigned <= 0
      THEN IF spent <= 0
           THEN [baselineAmount |-> 0,
                 spentRatio |-> Zero,
                 budgetedRatio |-> Zero,
                 overflowRatio |-> Zero,
                 remaining |-> 0,
                 state |-> "funded"]
           ELSE [baselineAmount |-> spent,
                 spentRatio |-> One,
                 budgetedRatio |-> Zero,
                 overflowRatio |-> Zero,
                 remaining |-> balance,
                 state |-> "over-budget"]
      ELSE IF spent > assigned
           THEN [baselineAmount |-> assigned,
                 spentRatio |-> One,
                 budgetedRatio |-> One,
                 overflowRatio |-> Div(Num(spent - assigned), Num(assigned)),
                 remaining |-> balance,
                 state |-> "over-budget"]
           ELSE LET isUnderfunded == hasTemplate(template) /\ assigned <= template
                    baselineAmount ==
                      IF hasTemplate(template) THEN template ELSE assigned
                    spentRatio ==
                      IF assigned > 0
                      THEN Mul(MathMin(Div(Num(spent), Num(assigned)), One),
                               budgetedRatio(assigned, template))
                      ELSE Zero
                IN  [baselineAmount |-> baselineAmount,
                     spentRatio |-> spentRatio,
                     budgetedRatio |-> budgetedRatio(assigned, template),
                     overflowRatio |-> Zero,
                     remaining |-> balance,
                     state |-> IF isUnderfunded THEN "underfunded" ELSE "funded"]

computeCategoryProgressB(p) ==
  LET assigned == p.assigned
      balance == p.balance
      template == TemplateOrDefault(p.template)
      spent == Abs(p.activity)
  IN  IF assigned <= 0
      THEN IF spent <= 0
           THEN [baselineAmount |-> 0,
                 spentRatio |-> Zero,
                 budgetedRatio |-> Zero,
                 overflowRatio |-> Zero,
                 remaining |-> 0,
                 state |-> "funded"]
           ELSE [baselineAmount |-> spent,
                 spentRatio |-> One,
                 budgetedRatio |-> Zero,
                 overflowRatio |-> Zero,
                 remaining |-> balance,
                 state |-> "over-budget"]
      ELSE IF spent > assigned
           THEN [baselineAmount |-> assigned,
                 spentRatio |-> One,
                 budgetedRatio |-> One,
                 overflowRatio |-> Div(Num(spent - assigned), Num(assigned)),
                 remaining |-> balance,
                 state |-> "over-budget"]
           ELSE LET isUnderfunded == hasTemplate(template) /\ assigned < template
                    baselineAmount ==
                      IF hasTemplate(template) THEN template ELSE assigned
                    spentRatio ==
                      IF assigned > 0
                      THEN Mul(MathMin(Div(Num(spent), Num(assigned)), One),
                               budgetedRatio(assigned, template))
                      ELSE Zero
                IN  [baselineAmount |-> baselineAmount,
                     spentRatio |-> spentRatio,
                     budgetedRatio |-> budgetedRatio(assigned, template),
                     overflowRatio |-> Zero,
                     remaining |-> balance,
                     state |-> IF isUnderfunded THEN "underfunded" ELSE "funded"]

getProgressBarColorB(state) ==
  CASE state = "over-budget" -> "budgetNumberNegative"
    [] state = "underfunded" -> "templateNumberUnderFunded"
    [] OTHER -> "templateNumberFunded"

(***************************************************************************)
(* The view.  A tooltip is the sequence of its parts (joined by " • " in   *)
(* the code); the currency formatter is external, so a formatted amount is *)
(* kept as the number it formats.  A rendered element is a record; the     *)
(* children of the bar's track are a sequence of segments.  A width or an  *)
(* offset is the number in front of the "%" sign.                          *)
(***************************************************************************)
Null == [type |-> "null"]

Part(label, value) == [label |-> label, value |-> value]

Segment(kind, left, width) == [kind |-> kind, left |-> left, width |-> width]

\* mutant: the primary fill is always rescaled by ratio + overflowRatio
fillWidth_AlwaysRescaled(ratio, overflowRatio) ==
  Mul(Div(ratio, Add(ratio, overflowRatio)), Num(100))

\* the primary fill: its width is rescaled when there is overflow
\* mutant: the primary fill is never rescaled
fillWidth_NotRescaled(ratio, overflowRatio) ==
  Mul(ratio, Num(100))

fillWidth(ratio, overflowRatio) ==
  IF Less(Zero, overflowRatio)
  THEN Mul(Div(ratio, Add(ratio, overflowRatio)), Num(100))
  ELSE Mul(ratio, Num(100))

\* the overflow segment, rendered only when there is overflow
overflowSegment(ratio, overflowRatio) ==
  IF Less(Zero, overflowRatio)
  THEN <<Segment("overflow",
                 Mul(Div(ratio, Add(ratio, overflowRatio)), Num(100)),
                 Mul(Div(overflowRatio, Add(ratio, overflowRatio)), Num(100)))>>
  ELSE <<>>

\* mutant: the percent is capped at 100
percentOf_Capped(ratio, overflowRatio) ==
  MathRound(MathMin(Mul(Add(ratio, overflowRatio), Num(100)), Num(100)))

percentOf(ratio, overflowRatio) ==
  MathRound(Mul(Add(ratio, overflowRatio), Num(100)))

tooltipPartsA(props, result) ==
    (IF result.baselineAmount > 0
     THEN <<Part("% of budget spent",
                 percentOf(result.progressRatio, result.overflowRatio))>>
     ELSE <<>>)
  \o (IF props.assigned # 0
      THEN <<Part("Budgeted", Num(props.assigned))>> ELSE <<>>)
  \o (IF props.activity # 0
      THEN <<Part("Spent", Num(Abs(props.activity)))>> ELSE <<>>)
  \o (IF props.balance # 0
      THEN <<Part("Balance", Num(props.balance))>> ELSE <<>>)

\* mutant: the feature flag is not checked
CategoryProgressBarA_IgnoresFlag(props, enabled) ==
  LET result == computeCategoryProgressA(props)
      fillColor == getProgressBarColorA(result.state)
      tooltipContent == tooltipPartsA(props, result)
  IN  IF result.baselineAmount <= 0
      THEN Null
      ELSE [type |-> "Tooltip",
            content |-> tooltipContent,
            fillColor |-> fillColor,
            track |->
                 <<Segment("fill", Zero,
                           fillWidth(result.progressRatio,
                                     result.overflowRatio))>>
              \o overflowSegment(result.progressRatio, result.overflowRatio)]

\* CategoryProgressBar of variant A: what the component returns
CategoryProgressBarA(props, enabled) ==
  LET result == computeCategoryProgressA(props)
      fillColor == getProgressBarColorA(result.state)
      tooltipContent == tooltipPartsA(props, result)
  IN  IF ~enabled \/ result.baselineAmount <= 0
      THEN Null
      ELSE [type |-> "Tooltip",
            content |-> tooltipContent,
            fillColor |-> fillColor,
            track |->
                 <<Segment("fill", Zero,
                           fillWidth(result.progressRatio,
                                     result.overflowRatio))>>
              \o overflowSegment(result.progressRatio, result.overflowRatio)]

\* `template && template > 0` of the JSX and of the tooltip
templateSet(template) == template # Undefined /\ template[1] > 0

\* mutant: the budgeted part is shown only for a positive amount
tooltipPartsB_BudgetedPositive(props, result) ==
    (IF result.baselineAmount > 0
     THEN <<Part(IF templateSet(props.template)
                 THEN "% of template spent"
                 ELSE "% of budget spent",
                 percentOf(result.spentRatio, result.overflowRatio))>>
     ELSE <<>>)
  \o (IF templateSet(props.template)
      THEN <<Part("Template", Num(props.template[1]))>> ELSE <<>>)
  \o (IF props.assigned > 0
      THEN <<Part("Budgeted", Num(props.assigned))>> ELSE <<>>)
  \o (IF props.activity # 0
      THEN <<Part("Spent", Num(Abs(props.activity)))>> ELSE <<>>)
  \o (IF props.balance # 0
      THEN <<Part("Balance", Num(props.balance))>> ELSE <<>>)

tooltipPartsB(props, result) ==
    (IF result.baselineAmount > 0
     THEN <<Part(IF templateSet(props.template)
                 THEN "% of template spent"
                 ELSE "% of budget spent",
                 percentOf(result.spentRatio, result.overflowRatio))>>
     ELSE <<>>)
  \o (IF templateSet(props.template)
      THEN <<Part("Template", Num(props.template[1]))>> ELSE <<>>)
  \o (IF props.assigned # 0
      THEN <<Part("Budgeted", Num(props.assigned))>> ELSE <<>>)
  \o (IF props.activity # 0
      THEN <<Part("Spent", Num(Abs(props.activity)))>> ELSE <<>>)
  \o (IF props.balance # 0
      THEN <<Part("Balance", Num(props.balance))>> ELSE <<>>)

\* {template && template > 0 && progress.budgetedRatio > 0 && (<View/>)}:
\* undefined and false render nothing, the number 0 renders as the text "0"
budgetedSegment(template, ratio) ==
  IF template = Undefined THEN <<>>
  ELSE IF template[1] = 0 THEN <<[kind |-> "text", text |-> "0"]>>
  ELSE IF ~(template[1] > 0) THEN <<>>
  ELSE IF ~Less(Zero, ratio) THEN <<>>
  ELSE <<Segment("budgeted", Zero, Mul(ratio, Num(100)))>>

\* mutant: the component also hides the bar when the preference is off
CategoryProgressBarB_ReadsPref(props, enabled) ==
  LET result == computeCategoryProgressB(props)
      fillColor == getProgressBarColorB(result.state)
      tooltipContent == tooltipPartsB(props, result)
  IN  IF ~enabled \/ showProgressBarsPref = "false"
         \/ result.baselineAmount <= 0
      THEN Null
      ELSE [type |-> "Tooltip",
            content |-> tooltipContent,
            fillColor |-> fillColor,
            track |->
                 budgetedSegment(props.template, result.budgetedRatio)
              \o <<Segment("fill", Zero,
                           fillWidth(result.spentRatio,
                                     result.overflowRatio))>>
              \o overflowSegment(result.spentRatio, result.overflowRatio)]

\* CategoryProgressBar of variant B: what the component returns
CategoryProgressBarB(props, enabled) ==
  LET result == computeCategoryProgressB(props)
      fillColor == getProgressBarColorB(result.state)
      tooltipContent == tooltipPartsB(props, result)
  IN  IF ~enabled \/ result.baselineAmount <= 0
      THEN Null
      ELSE [type |-> "Tooltip",
            content |-> tooltipContent,
            fillColor |-> fillColor,
            track |->
                 budgetedSegment(props.template, result.budgetedRatio)
              \o <<Segment("fill", Zero,
                           fillWidth(result.spentRatio,
                                     result.overflowRatio))>>
              \o overflowSegment(result.spentRatio, result.overflowRatio)]

\* ExpenseCategory: whether the row makes room for the bars
showProgressBars == progressBarEnabled /\ showProgressBarsPref # "false"

(***************************************************************************)
(* TemplateGoalProvider.  A month is a number, addMonths adds to it.  The   *)
(* goals of a month map a category to a goal, <<>> standing for null and   *)
(* <<g>> for the amount g.  A run of the effect is a record: the months it *)
(* fetches, the outcome of each fetch, its `mounted` flag and how it ended.*)
(***************************************************************************)
MaxLoads == 2
MaxMonths == 2

Categories == {"c1"}

StartMonths == {1, 2}

NullGoal == <<>>

Goals == {NullGoal, <<1>>}

GoalMaps == [Categories -> Goals]

EmptyGoals == [c \in {} |-> NullGoal]

Inputs ==
  [enabled : BOOLEAN, startMonth : StartMonths,
   numMonths : 0 .. MaxMonths, fingerprint : {"a", "b"}]

addMonths(month, n) == month + n

\* the month window counted from index 1 instead of index 0
months_FromOne(inp) ==
  [i \in 1 .. inp.numMonths |-> addMonths(inp.startMonth, i)]

\* Array.from({length: numMonths}, (_, index) => addMonths(startMonth, index))
months(inp) == [i \in 1 .. inp.numMonths |-> addMonths(inp.startMonth, i - 1)]

Pending == [status |-> "pending"]

Rejected == [status |-> "rejected"]

Resolved(goals) == [status |-> "resolved", goals |-> goals]

\* the callback of months.map without its catch: a failed fetch rejects
monthEntry_Rethrows(month, outcome) ==
  IF outcome.status = "resolved"
  THEN [fulfilled |-> TRUE, month |-> month, goals |-> outcome.goals]
  ELSE [fulfilled |-> FALSE, month |-> month, goals |-> EmptyGoals]

\* what the callback of months.map returns once its fetch has settled
monthEntry(month, outcome) ==
  IF outcome.status = "resolved"
  THEN [fulfilled |-> TRUE, month |-> month, goals |-> outcome.goals]
  ELSE [fulfilled |-> TRUE, month |-> month, goals |-> EmptyGoals]

\* entries.reduce((all, [month, goals]) => { all[month] = goals; ... }, {})
reduceEntries(entries) ==
  [m \in {entries[i].month : i \in DOMAIN entries} |->
     entries[CHOOSE i \in DOMAIN entries :
               /\ entries[i].month = m
               /\ \A j \in DOMAIN entries :
                    entries[j].month = m => j <= i].goals]

\* templateGoalsByMonth[month]?.[categoryId] ?? null
useTemplateGoal(categoryId, month) ==
  IF month \notin DOMAIN templateGoalsByMonth THEN NullGoal
  ELSE IF categoryId \notin DOMAIN templateGoalsByMonth[month] THEN NullGoal
  ELSE templateGoalsByMonth[month][categoryId]

\* templateGoalsByMonth[month] ?? {}
useTemplateGoalsForMonth(month) ==
  IF month \notin DOMAIN templateGoalsByMonth THEN EmptyGoals
  ELSE templateGoalsByMonth[month]

ProviderInit ==
  /\ providerPhase = "unmounted"
  /\ inputs = [enabled |-> FALSE, startMonth |-> 1, numMonths |-> 0,
               fingerprint |-> "a"]
  /\ templateGoalsByMonth = EmptyGoals
  /\ loads = <<>>
  /\ lastWriter = 0

\* the cleanup of the effect: mounted = false in the closure of the last run
cleanup(ls) ==
  [i \in DOMAIN ls |-> [ls[i] EXCEPT !.mounted = FALSE]]

\* the effect runs loadTemplateGoals up to its first await: with enabled
\* false it resets the state and returns, otherwise it sends one fetch per
\* month
runEffect(inp, ls) ==
  LET id == Len(ls) + 1
  IN  IF ~inp.enabled
      THEN /\ templateGoalsByMonth' = EmptyGoals
           /\ lastWriter' = id
           /\ loads' = Append(ls, [months |-> <<>>, outcomes |-> <<>>,
                                   mounted |-> TRUE, phase |-> "reset",
                                   after |-> lastWriter])
      ELSE /\ loads' = Append(ls, [months |-> months(inp),
                                   outcomes |->
                                     [i \in 1 .. inp.numMonths |-> Pending],
                                   mounted |-> TRUE, phase |-> "fetching",
                                   after |-> lastWriter])
           /\ UNCHANGED <<templateGoalsByMonth, lastWriter>>

Mount(inp) ==
  /\ providerPhase = "unmounted"
  /\ providerPhase' = "mounted"
  /\ inputs' = inp
  /\ runEffect(inp, loads)
  /\ UNCHANGED barVars

\* a render with a changed dependency: cleanup, then the effect runs again
ChangeInputs(inp) ==
  /\ providerPhase = "mounted"
  /\ inp # inputs
  /\ Len(loads) < MaxLoads
  /\ inputs' = inp
  /\ runEffect(inp, cleanup(loads))
  /\ UNCHANGED <<providerPhase, barVars>>

Unmount ==
  /\ providerPhase = "mounted"
  /\ providerPhase' = "gone"
  /\ loads' = cleanup(loads)
  /\ UNCHANGED <<inputs, templateGoalsByMonth, lastWriter, barVars>>

\* send('budget/get-template-goals', {month}) of a run answers
FetchResolve(id, i, goals) ==
  /\ id \in DOMAIN loads
  /\ loads[id].phase = "fetching"
  /\ i \in DOMAIN loads[id].outcomes
  /\ loads[id].outcomes[i] = Pending
  /\ loads' = [loads EXCEPT ![id].outcomes[i] = Resolved(goals)]
  /\ UNCHANGED <<providerPhase, inputs, templateGoalsByMonth, lastWriter,
                 barVars>>

\* send('budget/get-template-goals', {month}) of a run throws
FetchReject(id, i) ==
  /\ id \in DOMAIN loads
  /\ loads[id].phase = "fetching"
  /\ i \in DOMAIN loads[id].outcomes
  /\ loads[id].outcomes[i] = Pending
  /\ loads' = [loads EXCEPT ![id].outcomes[i] = Rejected]
  /\ UNCHANGED <<providerPhase, inputs, templateGoalsByMonth, lastWriter,
                 barVars>>

\* loadTemplateGoals without its `if (!mounted) return`
Complete_IgnoresMounted(id) ==
  /\ id \in DOMAIN loads
  /\ loads[id].phase = "fetching"
  /\ \A i \in DOMAIN loads[id].outcomes : loads[id].outcomes[i] # Pending
  /\ LET load == loads[id]
         entries == [i \in DOMAIN load.outcomes |->
                       monthEntry(load.months[i], load.outcomes[i])]
     IN  IF \E i \in DOMAIN entries : ~entries[i].fulfilled
         THEN /\ loads' = [loads EXCEPT ![id].phase = "failed",
                                        ![id].after = lastWriter]
              /\ UNCHANGED <<templateGoalsByMonth, lastWriter>>
         ELSE /\ templateGoalsByMonth' = reduceEntries(entries)
              /\ lastWriter' = id
              /\ loads' = [loads EXCEPT ![id].phase = "written",
                                        ![id].after = lastWriter]
  /\ UNCHANGED <<providerPhase, inputs, barVars>>

\* Promise.all has settled: the rest of loadTemplateGoals runs
Complete(id) ==
  /\ id \in DOMAIN loads
  /\ loads[id].phase = "fetching"
  /\ \A i \in DOMAIN loads[id].outcomes : loads[id].outcomes[i] # Pending
  /\ LET load == loads[id]
         entries == [i \in DOMAIN load.outcomes |->
                       monthEntry(load.months[i], load.outcomes[i])]
     IN  IF \E i \in DOMAIN entries : ~entries[i].fulfilled
         THEN /\ loads' = [loads EXCEPT ![id].phase = "failed",
                                        ![id].after = lastWriter]
              /\ UNCHANGED <<templateGoalsByMonth, lastWriter>>
         ELSE IF ~load.mounted
         THEN /\ loads' = [loads EXCEPT ![id] =
                               [months |-> <<>>, outcomes |-> <<>>,
                                mounted |-> FALSE, phase |-> "dropped",
                                after |-> lastWriter]]
              /\ UNCHANGED <<templateGoalsByMonth, lastWriter>>
         ELSE /\ templateGoalsByMonth' = reduceEntries(entries)
              /\ lastWriter' = id
              /\ loads' = [loads EXCEPT ![id].phase = "written",
                                        ![id].after = lastWriter]
  /\ UNCHANGED <<providerPhase, inputs, barVars>>

NextProvider ==
  \/ \E inp \in Inputs : Mount(inp)
  \/ \E inp \in Inputs : ChangeInputs(inp)
  \/ Unmount
  \/ \E id \in 1 .. MaxLoads, i \in 1 .. MaxMonths, g \in GoalMaps :
       FetchResolve(id, i, g)
  \/ \E id \in 1 .. MaxLoads, i \in 1 .. MaxMonths : FetchReject(id, i)
  \/ \E id \in 1 .. MaxLoads : Complete(id)

(***************************************************************************)
(* The state machine: one mounted CategoryProgressBar, re-rendered         *)
(* whenever a prop or the feature flag changes.                            *)
(***************************************************************************)
\* useMemo(() => computeCategoryProgress({...}), [...])
Progress(v, props) ==
  IF v = "A"
  THEN computeCategoryProgressA(props)
  ELSE computeCategoryProgressB(props)

Element(v, props, enabled) ==
  IF v = "A"
  THEN CategoryProgressBarA(props, enabled)
  ELSE CategoryProgressBarB(props, enabled)

Render(props, enabled) ==
  /\ params' = props
  /\ progressBarEnabled' = enabled
  /\ progress' = Progress(variant, props)
  /\ rendered' = Element(variant, props, enabled)
  /\ UNCHANGED <<variant, showProgressBarsPref>>
  /\ UNCHANGED providerVars

DefaultProps ==
  [assigned |-> 0, activity |-> 0, balance |-> 0, template |-> Undefined]

Init ==
  /\ variant \in {"A", "B"}
  /\ params = DefaultProps
  /\ progressBarEnabled = FALSE
  /\ showProgressBarsPref = "undefined"
  /\ progress = Progress(variant, params)
  /\ rendered = Element(variant, params, progressBarEnabled)
  /\ ProviderInit

SetAssigned(v) ==
  Render([params EXCEPT !.assigned = v], progressBarEnabled)

SetActivity(v) ==
  Render([params EXCEPT !.activity = v], progressBarEnabled)

SetBalance(v) ==
  Render([params EXCEPT !.balance = v], progressBarEnabled)

SetTemplate(t) ==
  /\ variant = "B"
  /\ Render([params EXCEPT !.template = t], progressBarEnabled)

SetFeatureFlag(v) == Render(params, v)

\* the component does not read the preference: nothing re-renders
SetShowProgressBarsPref(v) ==
  /\ showProgressBarsPref' = v
  /\ UNCHANGED <<variant, params, progressBarEnabled, progress, rendered>>
  /\ UNCHANGED providerVars

Next ==
  \/ \E v \in Amounts : SetAssigned(v)
  \/ \E v \in Amounts : SetActivity(v)
  \/ \E v \in Balances : SetBalance(v)
  \/ \E t \in Templates : SetTemplate(t)
  \/ \E v \in BOOLEAN : SetFeatureFlag(v)
  \/ \E v \in {"true", "false", "undefined"} : SetShowProgressBarsPref(v)

Spec == Init /\ [][Next]_vars

\* the same component, also with amounts of realistic size
NextLarge ==
  \/ Next
  \/ \E v \in LargeAmounts : SetAssigned(v)
  \/ \E v \in LargeAmounts : SetActivity(0 - v)

SpecLarge == Init /\ [][NextLarge]_vars

\* the provider alone, the progress bar left as it was constructed
InitProvider ==
  /\ Init
  /\ variant = "B"

SpecProvider == InitProvider /\ [][NextProvider]_vars

\* the continuation of loadTemplateGoals after Promise.all is a microtask:
\* once every fetch of a run has settled, the event loop runs it
SpecProviderFair ==
  /\ InitProvider
  /\ [][NextProvider]_vars
  /\ \A id \in 1 .. MaxLoads : WF_vars(Complete(id))

(***************************************************************************)
(* Properties.                                                             *)
(***************************************************************************)
spentOf(props) == Abs(props.activity)

\* the fill ratio of the result: progressRatio in variant A, spentRatio in B
ratioOf(result) ==
  IF variant = "A" THEN result.progressRatio ELSE result.spentRatio

\* x is the fraction n / d, stated without the model's division
IsQuotient(x, n, d) == x.den > 0 /\ x.num * d = n * x.den

\* C1: in every branch of computeCategoryProgress the result's remaining
\* equals the input balance.
C1_RemainingIsBalance == progress.remaining = params.balance

\* C2: variant A, assigned > 0 and |activity| <= assigned (equality
\* included): baselineAmount = assigned, progressRatio = |activity|/assigned,
\* overflowRatio = 0, state = within-budget.
C2_WithinBudget ==
  (variant = "A" /\ params.assigned > 0 /\ spentOf(params) <= params.assigned)
    => /\ progress.baselineAmount = params.assigned
       /\ IsQuotient(progress.progressRatio, spentOf(params), params.assigned)
       /\ progress.overflowRatio = Zero
       /\ progress.state = "within-budget"

C2_Witness ==
  /\ variant = "A"
  /\ params.assigned = 3
  /\ params.activity = 0 - 3
  /\ progress.progressRatio = One
  /\ progress.state = "within-budget"

\* C3: variant A, assigned > 0 and |activity| > assigned: baselineAmount =
\* assigned, progressRatio = 1, overflowRatio = (|activity| - assigned) /
\* assigned without a cap, state = over-budget.
C3_OverBudget ==
  (variant = "A" /\ params.assigned > 0 /\ spentOf(params) > params.assigned)
    => /\ progress.baselineAmount = params.assigned
       /\ progress.progressRatio = One
       /\ IsQuotient(progress.overflowRatio,
                     spentOf(params) - params.assigned, params.assigned)
       /\ progress.state = "over-budget"

\* spending four times the budget: overflowRatio = 3
C3_Witness ==
  /\ variant = "A"
  /\ params.assigned = 1
  /\ params.activity = 0 - 4
  /\ progress.overflowRatio = Num(3)
  /\ progress.state = "over-budget"

\* C4: variant A, assigned <= 0 and |activity| > 0: baselineAmount =
\* |activity|, progressRatio = 1, overflowRatio = 0, state = over-budget.
C4_NoBudgetSpending ==
  (variant = "A" /\ params.assigned <= 0 /\ spentOf(params) > 0)
    => /\ progress.baselineAmount = spentOf(params)
       /\ progress.progressRatio = One
       /\ progress.overflowRatio = Zero
       /\ progress.state = "over-budget"

C4_Witness ==
  /\ variant = "A"
  /\ params.assigned < 0
  /\ params.activity = 0 - 2
  /\ progress.baselineAmount = 2
  /\ progress.state = "over-budget"

\* C5: variant A, assigned <= 0 and activity = 0: baselineAmount = 0,
\* progressRatio = 0, overflowRatio = 0, state = within-budget.
C5_NoBudgetNoSpending ==
  (variant = "A" /\ params.assigned <= 0 /\ params.activity = 0)
    => /\ progress.baselineAmount = 0
       /\ progress.progressRatio = Zero
       /\ progress.overflowRatio = Zero
       /\ progress.state = "within-budget"

C5_Witness ==
  /\ variant = "A"
  /\ params.assigned < 0
  /\ params.activity = 0
  /\ params.balance # 0
  /\ progress.baselineAmount = 0
  /\ progress.state = "within-budget"

\* C6: a negative assigned gives exactly the result record that assigned = 0
\* gives with the other inputs unchanged, in both variants.
C6_NegativeAssignedAsZero ==
  params.assigned < 0
    => progress = Progress(variant, [params EXCEPT !.assigned = 0])

C6_Witness ==
  /\ variant = "B"
  /\ params.assigned < 0
  /\ params.activity # 0
  /\ params.balance # 0
  /\ templateSet(params.template)
  /\ progress.state = "over-budget"

\* C7: every result, in both variants: the fill ratio is in [0,1],
\* overflowRatio >= 0, baselineAmount >= 0, overflowRatio > 0 implies the
\* ratio is 1, and baselineAmount = 0 implies ratio = 0 and overflowRatio = 0.
C7_ResultInvariant ==
  /\ LessEq(Zero, ratioOf(progress))
  /\ LessEq(ratioOf(progress), One)
  /\ LessEq(Zero, progress.overflowRatio)
  /\ progress.baselineAmount >= 0
  /\ (Less(Zero, progress.overflowRatio) => ratioOf(progress) = One)
  /\ (progress.baselineAmount = 0
        => ratioOf(progress) = Zero /\ progress.overflowRatio = Zero)

\* more assigned than the template asks for, part of it spent
C7_Witness ==
  /\ variant = "B"
  /\ templateSet(params.template)
  /\ params.assigned > params.template[1]
  /\ spentOf(params) > params.template[1]
  /\ progress.state = "funded"
  /\ Less(Zero, progress.spentRatio)
  /\ Less(progress.spentRatio, One)

\* the numbers a render shows: the percent of the tooltip and the offsets
\* and widths of the segments
shownNumbers(element) ==
  IF element = Null THEN {}
  ELSE {element.content[i].value : i \in DOMAIN element.content}
       \cup UNION {{element.track[i].left, element.track[i].width} :
                     i \in {j \in DOMAIN element.track :
                              element.track[j].kind # "text"}}

resultRatios(result) ==
  IF variant = "A"
  THEN {result.progressRatio, result.overflowRatio}
  ELSE {result.spentRatio, result.budgetedRatio, result.overflowRatio,
        budgetedRatio(params.assigned, TemplateOrDefault(params.template))}

\* C8: no division of the calculator or of the view's width computation has
\* a zero denominator: every returned ratio and every rendered number is a
\* finite number (a zero denominator yields NaN or an infinity).
C8_Total ==
  /\ \A x \in resultRatios(progress) : IsFinite(x)
  /\ \A x \in shownNumbers(rendered) : IsFinite(x)

\* a rendered bar whose two segments are rescaled by ratio + overflowRatio
C8_Witness ==
  /\ rendered # Null
  /\ Less(Zero, progress.overflowRatio)
  /\ \E i \in DOMAIN rendered.track : rendered.track[i].kind = "overflow"
  /\ variant = "B"
  /\ params.template # Undefined
  /\ params.template[1] < 0

\* C9: with the feature flag false nothing is rendered, whatever the input;
\* with the flag true and baselineAmount > 0 the render is not empty.
C9_FlagGatesRender ==
  /\ (~progressBarEnabled => rendered = Null)
  /\ (progressBarEnabled /\ progress.baselineAmount > 0
        => /\ rendered # Null
           /\ rendered.type = "Tooltip"
           /\ Len(rendered.track) >= 1)

C9_Witness ==
  /\ progressBarEnabled
  /\ progress.baselineAmount > 0
  /\ rendered # Null
  /\ variant = "A"

templateOf(props) == TemplateOrDefault(props.template)

\* C11: variant B, every input: budgetedRatio = min(assigned/template, 1)
\* when template > 0 and 1 when there is no template.
C11_BudgetedRatio ==
  variant = "B"
    => IF templateOf(params) > 0
       THEN IF params.assigned >= templateOf(params)
            THEN progress.budgetedRatio = One
            ELSE IsQuotient(progress.budgetedRatio,
                            params.assigned, templateOf(params))
       ELSE progress.budgetedRatio = One

\* C12: variant B, assigned > 0 and |activity| <= assigned: baselineAmount is
\* the template if template > 0 and assigned otherwise, spentRatio =
\* min(|activity|/assigned, 1) * budgetedRatio, overflowRatio = 0, and state
\* is underfunded if template > 0 and assigned < template, funded otherwise.
C12_WithinBudgetTemplate ==
  (variant = "B" /\ params.assigned > 0 /\ spentOf(params) <= params.assigned)
    => LET a == params.assigned
           t == templateOf(params)
       IN  /\ progress.baselineAmount = (IF t > 0 THEN t ELSE a)
           /\ IF t > 0 /\ a < t
              THEN IsQuotient(progress.spentRatio, spentOf(params) * a, a * t)
              ELSE IsQuotient(progress.spentRatio, spentOf(params), a)
           /\ progress.overflowRatio = Zero
           /\ progress.state
                = (IF t > 0 /\ a < t THEN "underfunded" ELSE "funded")

\* half of an underfunded budget spent: the fill is scaled down
C12_Witness ==
  /\ variant = "B"
  /\ params.assigned = 2
  /\ params.activity = 0 - 1
  /\ params.template = <<4>>
  /\ progress.spentRatio = Norm(1, 4)
  /\ progress.state = "underfunded"

\* the documented table of visual states
stateTable(a, spent, t) ==
  IF spent > a THEN "over-budget"
  ELSE IF t > 0 /\ a < t THEN "underfunded"
  ELSE "funded"

tooltipParts(v, props, result) ==
  IF v = "A" THEN tooltipPartsA(props, result) ELSE tooltipPartsB(props, result)

partKind(label) ==
  IF label \in {"% of budget spent", "% of template spent"}
  THEN "percent" ELSE label

\* whether the part applies to the current props and result
partApplies(kind) ==
  CASE kind = "percent" -> progress.baselineAmount > 0
    [] kind = "Template" -> templateOf(params) > 0
    [] kind = "Budgeted" -> params.assigned # 0
    [] kind = "Spent" -> params.activity # 0
    [] kind = "Balance" -> params.balance # 0

partOrder == <<"percent", "Template", "Budgeted", "Spent", "Balance">>

\* C15: the tooltip is exactly the parts that apply, in the fixed order
\* percent (iff baselineAmount > 0), template (iff template > 0), budgeted
\* (iff assigned # 0), spent (iff activity # 0, showing |activity|), balance
\* (iff balance # 0).
C15_TooltipParts ==
  LET parts == tooltipParts(variant, params, progress)
      kinds == [i \in DOMAIN parts |-> partKind(parts[i].label)]
  IN  /\ kinds = SelectSeq(partOrder, partApplies)
      /\ \A i \in DOMAIN parts :
           /\ kinds[i] = "Template" => parts[i].value = Num(templateOf(params))
           /\ kinds[i] = "Budgeted" => parts[i].value = Num(params.assigned)
           /\ kinds[i] = "Spent" => parts[i].value = Num(spentOf(params))
           /\ kinds[i] = "Balance" => parts[i].value = Num(params.balance)
      /\ (rendered # Null => rendered.content = parts)

\* a shown tooltip without the spent part, the budgeted amount negative
C15_Witness ==
  /\ variant = "B"
  /\ rendered # Null
  /\ Len(rendered.content) = 4
  /\ params.activity = 0
  /\ params.balance < 0
  /\ templateSet(params.template)

\* the segments of a kind in the track of an element
segmentsOf(element, kind) ==
  SelectSeq(element.track, LAMBDA seg : seg.kind = kind)

percentParts(element) ==
  SelectSeq(element.content, LAMBDA part : partKind(part.label) = "percent")

\* k is n / d rounded to the nearest integer, halves up (d > 0)
IsRounded(k, n, d) == 2 * k * d - d <= 2 * n /\ 2 * n < 2 * k * d + d

C19_NoTemplateAgrees ==
  (variant = "B" /\ ~templateSet(params.template))
    => LET a == computeCategoryProgressA(params)
       IN  /\ progress.baselineAmount = a.baselineAmount
           /\ progress.spentRatio = a.progressRatio
           /\ progress.overflowRatio = a.overflowRatio
           /\ progress.remaining = a.remaining
           /\ (progress.state = "over-budget" <=> a.state = "over-budget")
           /\ (progress.state # "over-budget"
                 => progress.state = "funded" /\ a.state = "within-budget")

\* template 0, the whole budget spent
C19_Witness ==
  /\ variant = "B"
  /\ params.template = <<0>>
  /\ params.assigned = 2
  /\ params.activity = 0 - 2
  /\ progress.spentRatio = One
  /\ progress.state = "funded"

\* the percent the tooltip parts of the current render start with
shownPercent == tooltipParts(variant, params, progress)[1].value

\* the percent is round((ratio + overflowRatio) * 100)
percentIsRounded ==
  LET r == ratioOf(progress)
      o == progress.overflowRatio
  IN  /\ shownPercent.den = 1
      /\ IsRounded(shownPercent.num,
                   100 * (r.num * o.den + o.num * r.den), r.den * o.den)

overspent == params.assigned > 0 /\ spentOf(params) > params.assigned

\* C14 as stated: whenever baselineAmount > 0 the percent shown is
\* round((ratio + overflowRatio) * 100), and for every input with assigned >
\* 0 and |activity| > assigned it exceeds 100.
C14_PercentExceeds100 ==
  progress.baselineAmount > 0
    => /\ percentIsRounded
       /\ (overspent => shownPercent.num > 100)

\* C14, amended: whenever baselineAmount > 0 the percent shown is
\* round((ratio + overflowRatio) * 100); it is not capped: with assigned > 0
\* and |activity| > assigned it is at least 100, it exceeds 100 when the
\* overspending is at least 1% of assigned, and it is 100 when the
\* overspending is less than half a percent of assigned.
C14_PercentAtLeast100 ==
  progress.baselineAmount > 0
    => /\ percentIsRounded
       /\ (overspent
             => LET over == spentOf(params) - params.assigned
                IN  /\ shownPercent.num >= 100
                    /\ (100 * over >= params.assigned
                          => shownPercent.num > 100)
                    /\ (200 * over < params.assigned
                          => shownPercent.num = 100))

\* one unit over a large budget is shown as 100%
C14_Witness ==
  /\ rendered # Null
  /\ params.assigned = LargeAmount
  /\ params.activity = 0 - (LargeAmount + 1)
  /\ progress.state = "over-budget"
  /\ Less(Zero, progress.overflowRatio)
  /\ percentParts(rendered)[1].value = Num(100)

(***************************************************************************)
(* TemplateGoalProvider                                                    *)
(***************************************************************************)
\* the run whose setTemplateGoalsByMonth call made the present state
isLastWriter(id) ==
  /\ id \in DOMAIN loads
  /\ lastWriter = id
  /\ loads[id].phase = "written"

\* C16: a month whose fetch failed does not fail the load: the load ends by
\* storing an empty goal map for that month, so that useTemplateGoal is null
\* for each of its categories, and the fetched goals for every month whose
\* fetch succeeded.
C16_FailedMonthIsEmpty ==
  \A id \in DOMAIN loads :
    /\ loads[id].phase # "failed"
    /\ isLastWriter(id) =>
         \A i \in DOMAIN loads[id].months :
           LET month == loads[id].months[i]
               outcome == loads[id].outcomes[i]
           IN  /\ month \in DOMAIN templateGoalsByMonth
               /\ outcome.status = "rejected" =>
                    /\ templateGoalsByMonth[month] = EmptyGoals
                    /\ useTemplateGoalsForMonth(month) = EmptyGoals
                    /\ \A c \in Categories :
                         useTemplateGoal(c, month) = NullGoal
               /\ outcome.status = "resolved" =>
                    /\ templateGoalsByMonth[month] = outcome.goals
                    /\ \A c \in Categories :
                         useTemplateGoal(c, month) = outcome.goals[c]

\* a load has written one month whose fetch failed and one month whose fetch
\* brought a goal
C16_Witness ==
  \E id \in DOMAIN loads :
    /\ isLastWriter(id)
    /\ \E i, j \in DOMAIN loads[id].outcomes :
         /\ loads[id].outcomes[i].status = "rejected"
         /\ loads[id].outcomes[j].status = "resolved"
         /\ \E c \in Categories : loads[id].outcomes[j].goals[c] # NullGoal

\* C20: the state is written only by the run of the effect that started
\* last, and only while the provider is mounted: a run whose cleanup has
\* happened (the inputs changed or the provider unmounted) ends without
\* writing.
C20_OnlyLatestLoadWrites ==
  [][/\ (lastWriter' # lastWriter \/
         templateGoalsByMonth' # templateGoalsByMonth) =>
          /\ lastWriter' = Len(loads')
          /\ providerPhase' = "mounted"
     /\ \A id \in DOMAIN loads :
          (loads[id].phase = "fetching" /\ ~loads[id].mounted) =>
            /\ loads'[id].phase \in {"fetching", "dropped"}
            /\ (loads'[id].phase = "dropped" =>
                  /\ templateGoalsByMonth' = templateGoalsByMonth
                  /\ lastWriter' = lastWriter)]_vars

\* an older run ended after a newer run had written, and the newer result
\* stands
C20_Witness ==
  \E id \in DOMAIN loads :
    /\ loads[id].phase = "dropped"
    /\ loads[id].after > id
    /\ isLastWriter(loads[id].after)
    /\ templateGoalsByMonth # EmptyGoals

\* the run n of the effect is the last one, and the provider is mounted and
\* enabled
stableAt(n) ==
  /\ providerPhase = "mounted"
  /\ inputs.enabled
  /\ Len(loads) = n

\* every fetch of the run n has settled
settledAt(n) ==
  /\ n \in DOMAIN loads
  /\ \A i \in DOMAIN loads[n].outcomes : loads[n].outcomes[i] # Pending

\* startMonth .. startMonth + numMonths - 1
monthWindow == {inputs.startMonth + k : k \in 0 .. inputs.numMonths - 1}

\* C21: if the provider stays mounted and enabled with the inputs of its
\* last run, and every fetch of that run settles, the state ends up with an
\* entry for exactly the months startMonth .. startMonth + numMonths - 1;
\* and each run of the effect with enabled false resets the state to the
\* empty map and sends no fetch.
C21_EventuallyLoaded ==
  /\ \A n \in 1 .. MaxLoads :
       (<>[]stableAt(n) /\ <>[]settledAt(n)) =>
         <>[](DOMAIN templateGoalsByMonth = monthWindow)
  /\ [][(Len(loads') = Len(loads) + 1 /\ ~inputs'.enabled) =>
          /\ templateGoalsByMonth' = EmptyGoals
          /\ loads'[Len(loads')].outcomes = <<>>
          /\ \A id \in DOMAIN loads' : loads'[id].phase # "fetching" \/
                                       id \in DOMAIN loads]_vars

\* after a run with enabled false had reset the state, a later run has
\* loaded a window of MaxMonths months
C21_Witness ==
  \E n \in DOMAIN loads :
    /\ stableAt(n)
    /\ isLastWriter(n)
    /\ inputs.numMonths = MaxMonths
    /\ DOMAIN templateGoalsByMonth = monthWindow
    /\ \E r \in 1 .. n - 1 : loads[r].phase = "reset"

====
